---------------------------- MODULE Spec2Model ----------------------------
(***************************************************************************)
(* Scroll-pinned phase animation engine of client/src/pages/home.tsx.      *)
(*                                                                         *)
(* Numbers.  The program computes with IEEE doubles; the model computes    *)
(* with exact rationals <<n, d>> (d > 0, lowest terms).  Scroll positions  *)
(* and sizes are integers (CSS pixels).                                    *)
(***************************************************************************)
EXTENDS Integers, Sequences, FiniteSets, TLC

VARIABLES
    TIMINGS,           \* the module constant TIMINGS, set when the module loads
    hasRaf,            \* host: requestAnimationFrame is defined
    thrown,            \* history: an effect of the page threw
    pinRef,            \* opts.pinRef.current is set, per section
    pageMounted,       \* HomePage is mounted (its effects have run)
    innerHeight,       \* window.innerHeight
    scrollY,           \* the window's scroll offset, written by lenis.raf
    lenis,             \* the Lenis instance: [alive, targetScroll]
    rafId,             \* useLenis: the closure variable rafId
    scheduled,         \* host: frame callbacks requested for the next frame
    toRun,             \* host: frame callbacks still to run in this frame
    inFrame,           \* host: a frame is being processed
    passDone,          \* ScrollTrigger's update pass of this frame has run
    triggers,          \* ScrollTrigger's registry of live registrations
    st,                \* usePinnedSection: the effect's st, per section
    dead,              \* usePinnedSection: the st the last cleanup killed, per section
    cleanedTwice,      \* history: a cleanup was invoked a second time
    updateDue,         \* ScrollTrigger has an update pass outstanding
    style,             \* inline style of every visual target, per section
    lastArg,           \* history: progress last handed to a section's onUpdate
                       \* since the section was last registered
    repeated,          \* history: a callback was invoked with the progress of
                       \* the invocation before it
    ticks,             \* history: raf ticks run (saturating at TickCap)
    tickAfterTeardown, \* history: a raf tick ran while the page was unmounted
    orphanCall,        \* history: a torn-down registration made a callback
    passBeforeTick     \* history: an update pass read scrollY before the
                       \* frame's lenis.raf had run

vars == <<TIMINGS, hasRaf, thrown, pinRef, pageMounted, innerHeight, scrollY,
          lenis, rafId, scheduled, toRun, inFrame, passDone, triggers, st,
          dead, cleanedTwice, updateDue, style, lastArg, repeated, ticks,
          tickAfterTeardown, orphanCall, passBeforeTick>>

hostVars == <<TIMINGS, hasRaf, thrown, pinRef, pageMounted, innerHeight,
              scrollY, lenis, rafId, scheduled, toRun, inFrame, passDone,
              triggers, st, dead, cleanedTwice, updateDue, ticks,
              tickAfterTeardown, orphanCall, passBeforeTick>>

---------------------------------------------------------------------------
(* Bounds of the model *)

\* Progress inputs of direct callback invocations are i / ProgressGrid.
ProgressGrid == 100
\* Direct invocations also try inputs this many grid steps outside [0, 1].
ProgressOver == 20
\* lenis.raf moves the offset to the next multiple of ScrollGrid, or to the target.
ScrollGrid == 1600
\* Unsmoothed scrolling is tried to every ScrubGrid-th pixel of a pin range.
ScrubGrid == 320
\* A wheel event's raw deltaY is +-(WheelMultiplierDen * WheelSize).
WheelSize == 320
\* Height in pixels of the unpinned tail of the page (CollectionPreview, Footer).
TailHeight == 800
\* The history counter ticks saturates here.
TickCap == 1

---------------------------------------------------------------------------
(* Exact rational arithmetic *)

RECURSIVE GCD(_, _)
GCD(a, b) == IF b = 0 THEN a ELSE GCD(b, a % b)

Abs(x) == IF x < 0 THEN -x ELSE x

Rat(n, d) ==
    LET s == IF d < 0 THEN -1 ELSE 1
        g == GCD(Abs(n), Abs(d))
    IN  <<(s * n) \div g, (s * d) \div g>>

Zero == <<0, 1>>
One == <<1, 1>>
Ten == <<10, 1>>
FromInt(i) == <<i, 1>>

RLe(a, b) == a[1] * b[2] <= b[1] * a[2]
RLt(a, b) == a[1] * b[2] < b[1] * a[2]
RSub(a, b) == Rat(a[1] * b[2] - b[1] * a[2], a[2] * b[2])
RMul(a, b) == Rat(a[1] * b[1], a[2] * b[2])
RDiv(a, b) == Rat(a[1] * b[2], a[2] * b[1])
RMin(a, b) == IF RLe(a, b) THEN a ELSE b
RMax(a, b) == IF RLe(a, b) THEN b ELSE a
\* Math.floor
RFloor(a) == a[1] \div a[2]
IMin(a, b) == IF a <= b THEN a ELSE b
IMax(a, b) == IF a <= b THEN b ELSE a

---------------------------------------------------------------------------
(* Progress Mapper: TIMINGS, clamp01, phaseOpacity *)

\* const TIMINGS: PinTimings = { fadeInEnd: 0.2, holdEnd: 0.7, fadeOutEnd: 0.9 }
DefaultTimings ==
    [fadeInEnd |-> <<1, 5>>, holdEnd |-> <<7, 10>>, fadeOutEnd |-> <<9, 10>>]

fadeInEnd == TIMINGS.fadeInEnd
holdEnd == TIMINGS.holdEnd
fadeOutEnd == TIMINGS.fadeOutEnd

clamp01NoFloor(n) == RMin(One, n)

\* Math.min(1, Math.max(0, n))
clamp01(n) == RMin(One, RMax(Zero, n))

phaseOpacityNoClamp(progress) ==
    LET p == progress
    IN  IF RLe(p, fadeInEnd) THEN RDiv(p, fadeInEnd)
        ELSE IF RLe(p, holdEnd) THEN One
        ELSE IF RLe(p, fadeOutEnd)
             THEN RSub(One, RDiv(RSub(p, holdEnd), RSub(fadeOutEnd, holdEnd)))
        ELSE Zero

phaseOpacityLateHold(progress) ==
    LET p == clamp01(progress)
    IN  IF RLe(p, fadeInEnd) THEN RDiv(p, fadeInEnd)
        ELSE IF RLt(p, holdEnd) THEN One
        ELSE IF RLe(p, fadeOutEnd)
             THEN RSub(One, RDiv(RSub(p, fadeInEnd), RSub(fadeOutEnd, fadeInEnd)))
        ELSE Zero

phaseOpacityRising(progress) ==
    LET p == clamp01(progress)
    IN  IF RLe(p, fadeInEnd) THEN RDiv(p, fadeInEnd)
        ELSE IF RLe(p, holdEnd) THEN One
        ELSE IF RLe(p, fadeOutEnd)
             THEN RDiv(RSub(p, holdEnd), RSub(fadeOutEnd, holdEnd))
        ELSE Zero

phaseOpacity(progress) ==
    LET p == clamp01(progress)
    IN  IF RLe(p, fadeInEnd) THEN RDiv(p, fadeInEnd)
        ELSE IF RLe(p, holdEnd) THEN One
        ELSE IF RLe(p, fadeOutEnd)
             THEN RSub(One, RDiv(RSub(p, holdEnd), RSub(fadeOutEnd, holdEnd)))
        ELSE Zero

---------------------------------------------------------------------------
(* Section Bindings *)

SectionOrder == <<"hero", "diamond", "story", "ai-visuals", "craft">>
Sections == {SectionOrder[i] : i \in 1..Len(SectionOrder)}
MultiSections == {"story", "ai-visuals", "craft"}

\* opts.pinDurationVh of each usePinnedSection call
PinDurationVh(s) ==
    CASE s = "hero" -> 200
      [] s = "diamond" -> 220
      [] s = "story" -> 200
      [] s = "ai-visuals" -> 220
      [] s = "craft" -> 220

\* lines.length, images.length, blocks.length; one target in the single sections
ItemCount(s) == IF s \in MultiSections THEN 3 ELSE 1

\* The style={{...}} each target is rendered with.  A target with no
\* transform is at offset 0.
InitialStyle(s) ==
    [i \in 1..ItemCount(s) |->
        [opacity |-> Zero,
         translateY |-> IF s \in {"story", "craft"} THEN Ten ELSE Zero]]

\* t = clamp01((p - 0.2) / 0.5); idx = Math.min(N - 1, Math.floor(t * N))
activeIndexNoMin(p, N) ==
    LET t == clamp01(RDiv(RSub(p, <<1, 5>>), <<1, 2>>))
    IN  RFloor(RMul(t, FromInt(N)))

activeIndex(p, N) ==
    LET t == clamp01(RDiv(RSub(p, <<1, 5>>), <<1, 2>>))
    IN  IMin(N - 1, RFloor(RMul(t, FromInt(N))))

SingleOnUpdateStepped(p, cur) ==
    LET opacity == phaseOpacity(p)
    IN  [i \in DOMAIN cur |->
            [opacity |-> opacity,
             translateY |-> IF opacity = One THEN Zero ELSE Ten]]

\* PinnedHero / PinnedDiamondReveal onUpdate
SingleOnUpdate(p, cur) ==
    LET opacity == phaseOpacity(p)
    IN  [i \in DOMAIN cur |->
            [opacity |-> opacity,
             translateY |-> RMul(RSub(One, opacity), Ten)]]

\* PinnedStory / PinnedCraftsmanship onUpdate (0-based idx, 1-based items)
TextOnUpdateBlend(p, cur) ==
    LET opacity == phaseOpacity(p)
        idx == activeIndex(p, Len(cur))
    IN  [i \in DOMAIN cur |->
            LET active == (i - 1 = idx) \/ (i = idx)
            IN  [opacity |-> IF active THEN opacity ELSE Zero,
                 translateY |-> IF active THEN Zero ELSE Ten]]

TextOnUpdateSkipInactive(p, cur) ==
    LET opacity == phaseOpacity(p)
        idx == activeIndex(p, Len(cur))
    IN  [i \in DOMAIN cur |->
            LET active == (i - 1 = idx)
            IN  IF active THEN [opacity |-> opacity, translateY |-> Zero]
                ELSE cur[i]]

TextOnUpdate(p, cur) ==
    LET opacity == phaseOpacity(p)
        idx == activeIndex(p, Len(cur))
    IN  [i \in DOMAIN cur |->
            LET active == (i - 1 = idx)
            IN  [opacity |-> IF active THEN opacity ELSE Zero,
                 translateY |-> IF active THEN Zero ELSE Ten]]

\* PinnedAIGeneratedVisuals onUpdate: opacity only
ImageOnUpdate(p, cur) ==
    LET opacity == phaseOpacity(p)
        idx == activeIndex(p, Len(cur))
    IN  [i \in DOMAIN cur |->
            LET active == (i - 1 = idx)
            IN  [cur[i] EXCEPT !.opacity = IF active THEN opacity ELSE Zero]]

\* opts.onUpdate of section s applied to its targets
OnUpdate(s, p, cur) ==
    CASE s \in {"hero", "diamond"} -> SingleOnUpdate(p, cur)
      [] s \in {"story", "craft"} -> TextOnUpdate(p, cur)
      [] s = "ai-visuals" -> ImageOnUpdate(p, cur)

None == <<>>


---------------------------------------------------------------------------
(* Host page: viewport, layout, frame callbacks *)

\* Values window.innerHeight takes (Resize picks among them).
InnerHeights == {400, 800}

Range(f) == {f[x] : x \in DOMAIN f}

SetMax(S) == CHOOSE x \in S : \A y \in S : y <= x

\* The smallest positive integer not in used: a name for a new handle or
\* registration.  The program's handles grow forever; only their being
\* different from every handle still held anywhere matters.
Fresh(used) ==
    CHOOSE h \in 1..(Cardinality(used) + 1) :
        h \notin used /\ \A k \in 1..(h - 1) : k \in used

IndexOf(s) == CHOOSE i \in 1..Len(SectionOrder) : SectionOrder[i] = s

\* pinSpacing: true reserves the pin distance below a pinned section.
SpacerOf(s, trigs) ==
    LET own == {t.distance : t \in {u \in trigs : u.el = s}}
    IN  IF own = {} THEN 0 ELSE SetMax(own)

RECURSIVE TopBefore(_, _, _)
\* Document offset of the top of the i-th section: every section above it is
\* min-h-[100svh] tall and followed by its pin spacer.
TopBefore(i, trigs, h) ==
    IF i <= 1 THEN 0
    ELSE TopBefore(i - 1, trigs, h) + h + SpacerOf(SectionOrder[i - 1], trigs)

\* start: "top top": the scroll offset at which the trigger's top edge
\* reaches the top of the viewport.
StartOf(s, trigs, h) == TopBefore(IndexOf(s), trigs, h)

\* The largest scroll offset: document height less the viewport.
MaxScroll(trigs, h) ==
    IMax(0, TopBefore(Len(SectionOrder) + 1, trigs, h) + TailHeight - h)

ClampScroll(y, trigs, h) == IMax(0, IMin(MaxScroll(trigs, h), y))

---------------------------------------------------------------------------
(* Pin Controller: usePinnedSection *)

PinDistanceDefault(s, h) == (200 * h) \div 100

\* end: `+=${(opts.pinDurationVh ?? 200) * (window.innerHeight / 100)}`
PinDistance(s, h) == (PinDurationVh(s) * h) \div 100

\* ScrollTrigger.create({id, trigger: el, start: "top top", end, pin, ...})
\* on the registry reg = [triggers, st, dead]: the new registration is an
\* instance of its own and starts at progress 0.
CreateTrigger(reg, s, h) ==
    LET uid == Fresh({t.uid : t \in reg.triggers} \cup Range(reg.st)
                        \cup Range(reg.dead))
        t == [uid |-> uid, id |-> s, el |-> s,
              start |-> StartOf(s, reg.triggers, h),
              distance |-> PinDistance(s, h),
              regHeight |-> h,
              progress |-> Zero,
              fresh |-> TRUE]
    IN  [triggers |-> reg.triggers \cup {t},
         st |-> [reg.st EXCEPT ![s] = uid],
         dead |-> reg.dead]

PinnedSectionEffectNoGuard(reg, s, h, el) == CreateTrigger(reg, s, h)

PinnedSectionEffectInverted(reg, s, h, el) ==
    IF el THEN [reg EXCEPT !.st[s] = 0] ELSE CreateTrigger(reg, s, h)

\* The effect body: const el = opts.pinRef.current; if (!el) return; create.
PinnedSectionEffect(reg, s, h, el) ==
    IF ~el THEN [reg EXCEPT !.st[s] = 0] ELSE CreateTrigger(reg, s, h)

KillById(trigs, inst) == {t \in trigs : t.id # inst.id}

\* st.kill() on the instance inst = [uid, id]: it leaves the registry.
Kill(trigs, inst) == {t \in trigs : t.uid # inst.uid}

PinnedSectionCleanupLeak(reg, s) == [reg EXCEPT !.st[s] = 0]

\* The effect's cleanup: st.kill().  An effect that returned early has none.
PinnedSectionCleanup(reg, s) ==
    IF reg.st[s] = 0 THEN reg
    ELSE [triggers |-> Kill(reg.triggers, [uid |-> reg.st[s], id |-> s]),
          st |-> [reg.st EXCEPT ![s] = 0],
          dead |-> [reg.dead EXCEPT ![s] = reg.st[s]]]

RECURSIVE CleanupFrom(_, _)
CleanupFrom(reg, i) ==
    IF i > Len(SectionOrder) THEN reg
    ELSE CleanupFrom(PinnedSectionCleanup(reg, SectionOrder[i]), i + 1)

RECURSIVE EffectFrom(_, _, _, _)
EffectFrom(reg, i, h, refs) ==
    IF i > Len(SectionOrder) THEN reg
    ELSE EffectFrom(PinnedSectionEffect(reg, SectionOrder[i], h, refs[SectionOrder[i]]),
                    i + 1, h, refs)

Reg == [triggers |-> triggers, st |-> st, dead |-> dead]

\* What is left of the cleanups that have run: React drops a cleanup once
\* it has run it; another caller may keep it (keep).
Ran(reg, keep) == IF keep THEN reg ELSE [reg EXCEPT !.dead = dead]

\* ScrollTrigger's refresh: every live registration's start is measured again;
\* end stays start + the distance given at creation.
Refreshed(trigs, h) ==
    {[t EXCEPT !.start = StartOf(t.el, trigs, h)] : t \in trigs}

Aged(trigs) == {[t EXCEPT !.fresh = FALSE] : t \in trigs}

ProgressAtWhilePinned(t, y) ==
    IF y > t.start + t.distance THEN t.progress
    ELSE clamp01(Rat(y - t.start, t.distance))

\* self.progress of a registration for scroll offset y
ProgressAt(t, y) == clamp01(Rat(y - t.start, t.distance))

ChangedAlways(trigs, y) == trigs

\* The registrations an update pass at offset y calls back: those whose
\* progress is no longer the one they hold.
Changed(trigs, y) == {t \in trigs : ProgressAt(t, y) # t.progress}


---------------------------------------------------------------------------
(* Scroll Virtualizer: useLenis *)

\* wheelMultiplier: 0.85 = 17 / 20
WheelMultiplierNum == 17
WheelMultiplierDen == 20

\* Raw deltaY of the wheel events tried; multiples of WheelMultiplierDen, so
\* that the multiplied delta is a whole number of pixels.
WheelDeltas == {-(WheelMultiplierDen * WheelSize), WheelMultiplierDen * WheelSize}

\* Offsets lenis.raf may write when the offset is cur and the target tgt.
\* The eased step depends on the time since the last frame (lerp: 0.085 per
\* 1/60 s); the model takes the two ends: one grid cell toward the target,
\* or all the way.
LerpChoices(cur, tgt) ==
    IF cur = tgt THEN {cur}
    ELSE {tgt} \cup
         (IF cur < tgt
          THEN {g \in {(cur \div ScrollGrid + 1) * ScrollGrid} : g < tgt}
          ELSE {g \in {((cur - 1) \div ScrollGrid) * ScrollGrid} : g > tgt})

\* cancelAnimationFrame(rafId)
CancelAnimationFrame(pending, id) == pending \ {id}

\* What raf stores in rafId after requesting the next frame with handle h.
\* (A handle requestAnimationFrame returns differs from every handle that is
\* still held once it has been stored; the handle of the callback that is
\* running is spent.)
RafStoreStale(h) == rafId

RafStore(h) == h

---------------------------------------------------------------------------
(* Initial state: nothing mounted *)

Unmounted ==
    /\ TIMINGS = DefaultTimings
    /\ thrown = FALSE
    /\ pinRef = [s \in Sections |-> FALSE]
    /\ dead = [s \in Sections |-> 0]
    /\ cleanedTwice = FALSE
    /\ repeated = FALSE
    /\ pageMounted = FALSE
    /\ innerHeight = 800
    /\ scrollY = 0
    /\ lenis = [alive |-> FALSE, targetScroll |-> 0]
    /\ rafId = 0
    /\ scheduled = {}
    /\ toRun = {}
    /\ inFrame = FALSE
    /\ passDone = FALSE
    /\ triggers = {}
    /\ st = [s \in Sections |-> 0]
    /\ updateDue = FALSE
    /\ style = [s \in Sections |-> InitialStyle(s)]
    /\ lastArg = [s \in Sections |-> None]
    /\ ticks = 0
    /\ tickAfterTeardown = FALSE
    /\ orphanCall = FALSE
    /\ passBeforeTick = FALSE

\* A browser: requestAnimationFrame is defined.
Init == hasRaf = TRUE /\ Unmounted

---------------------------------------------------------------------------
(* React lifecycle of HomePage *)

\* First commit: the refs are attached, the sections' effects run in order (children before the
\* parent), then useLenis's effect: new Lenis, rafId = requestAnimationFrame(raf).
MountPage ==
    /\ ~pageMounted
    /\ ~inFrame
    /\ LET reg == EffectFrom(Reg, 1, innerHeight, [s \in Sections |-> TRUE])
           y == ClampScroll(scrollY, reg.triggers, innerHeight)
           h == Fresh(scheduled \cup toRun)
           gone == Ran(CleanupFrom(reg, 1), FALSE)
       IN  IF hasRaf
           THEN /\ triggers' = reg.triggers
                /\ st' = reg.st
                /\ dead' = reg.dead
                /\ scrollY' = y
                /\ lenis' = [alive |-> TRUE, targetScroll |-> y]
                /\ rafId' = h
                /\ scheduled' = scheduled \cup {h}
                /\ pageMounted' = TRUE
                /\ updateDue' = TRUE
                /\ thrown' = thrown
           \* requestAnimationFrame(raf) is a ReferenceError: useLenis's
           \* effect throws after new Lenis and returns no cleanup; React
           \* takes the page down, running the cleanups of the effects that
           \* completed.
           ELSE /\ triggers' = gone.triggers
                /\ st' = gone.st
                /\ dead' = gone.dead
                /\ scrollY' = scrollY
                /\ lenis' = [alive |-> TRUE, targetScroll |-> y]
                /\ rafId' = 0
                /\ scheduled' = scheduled
                /\ pageMounted' = FALSE
                /\ updateDue' = updateDue
                /\ thrown' = TRUE
    /\ pinRef' = [s \in Sections |-> hasRaf]
    /\ ticks' = 0
    /\ UNCHANGED <<TIMINGS, repeated, hasRaf, cleanedTwice, innerHeight,
                   toRun, inFrame, passDone, style, lastArg,
                   tickAfterTeardown, orphanCall, passBeforeTick>>

\* A re-render of HomePage: every section passes a new opts object, so every
\* usePinnedSection effect is cleaned up and run again; useLenis's effect has
\* no dependencies and is left alone.  Unchanged style props are not
\* written again.
Render(keep) ==
    /\ pageMounted
    /\ ~inFrame
    /\ LET reg == EffectFrom(Ran(CleanupFrom(Reg, 1), keep), 1, innerHeight, pinRef)
           y == ClampScroll(scrollY, reg.triggers, innerHeight)
       IN  /\ triggers' = IF y = scrollY THEN reg.triggers ELSE Aged(reg.triggers)
           /\ st' = reg.st
           /\ dead' = reg.dead
           /\ scrollY' = y
           /\ lenis' = [lenis EXCEPT !.targetScroll =
                            ClampScroll(@, reg.triggers, innerHeight)]
    /\ updateDue' = TRUE
    /\ lastArg' = [s \in Sections |-> None]
    /\ UNCHANGED <<TIMINGS, repeated, hasRaf, thrown, pinRef, cleanedTwice,
                   pageMounted, innerHeight, rafId, scheduled, toRun, inFrame,
                   passDone, style, ticks, tickAfterTeardown, orphanCall,
                   passBeforeTick>>

RenderPage == Render(FALSE)

\* Unmount: every section's cleanup, and useLenis's cleanup:
\* cancelAnimationFrame(rafId); lenis.destroy().
Unmount(keep) ==
    /\ pageMounted
    /\ ~inFrame
    /\ LET reg == Ran(CleanupFrom(Reg, 1), keep)
       IN  /\ triggers' = reg.triggers
           /\ st' = reg.st
           /\ dead' = reg.dead
    /\ scheduled' = CancelAnimationFrame(scheduled, rafId)
    /\ lenis' = [lenis EXCEPT !.alive = FALSE]
    /\ pageMounted' = FALSE
    /\ pinRef' = [s \in Sections |-> FALSE]
    /\ style' = [s \in Sections |-> InitialStyle(s)]
    /\ lastArg' = [s \in Sections |-> None]
    /\ UNCHANGED <<TIMINGS, repeated, hasRaf, thrown, cleanedTwice,
                   innerHeight, scrollY, rafId, toRun, inFrame, passDone,
                   updateDue, ticks, tickAfterTeardown, orphanCall,
                   passBeforeTick>>


UnmountPage == Unmount(FALSE)

\* The element a section's pinRef points to goes away or comes (back):
\* pinRef.current = b ? el : null.  No dependency of the effect changes.
SetRef(s, b) ==
    /\ pageMounted
    /\ ~inFrame
    /\ pinRef[s] # b
    /\ pinRef' = [pinRef EXCEPT ![s] = b]
    /\ UNCHANGED <<TIMINGS, repeated, hasRaf, thrown, dead, cleanedTwice,
                   pageMounted, innerHeight, scrollY, lenis, rafId, scheduled,
                   toRun, inFrame, passDone, triggers, st, updateDue, style,
                   lastArg, ticks, tickAfterTeardown, orphanCall,
                   passBeforeTick>>

\* The cleanup of a section's effect, already run, is invoked again:
\* st.kill() on the instance it killed before.
CleanupAgain(s) ==
    /\ ~inFrame
    /\ dead[s] # 0
    /\ triggers' = Kill(triggers, [uid |-> dead[s], id |-> s])
    /\ cleanedTwice' = TRUE
    /\ UNCHANGED <<TIMINGS, repeated, hasRaf, thrown, pinRef, dead,
                   pageMounted, innerHeight, scrollY, lenis, rafId, scheduled,
                   toRun, inFrame, passDone, st, updateDue, style, lastArg,
                   ticks, tickAfterTeardown, orphanCall, passBeforeTick>>

---------------------------------------------------------------------------
(* Input events, delivered between frames *)

\* A wheel event: Lenis (smoothWheel) moves its target by deltaY * wheelMultiplier.
Wheel(d) ==
    /\ pageMounted
    /\ ~inFrame
    /\ lenis.alive
    /\ lenis' = [lenis EXCEPT !.targetScroll =
                    ClampScroll(@ + (d * WheelMultiplierNum) \div WheelMultiplierDen,
                                triggers, innerHeight)]
    /\ UNCHANGED <<TIMINGS, repeated, hasRaf, thrown, pinRef, dead,
                   cleanedTwice, pageMounted, innerHeight, scrollY, rafId,
                   scheduled, toRun, inFrame, passDone, triggers, st,
                   updateDue, style, lastArg, ticks, tickAfterTeardown,
                   orphanCall, passBeforeTick>>

\* Scrolling that is not smoothed (touch, keyboard, scrollbar): the window
\* scrolls to y at once and Lenis adopts y as its target.
NativeScroll(y) ==
    /\ pageMounted
    /\ ~inFrame
    /\ y # scrollY
    /\ scrollY' = y
    /\ lenis' = IF lenis.alive THEN [lenis EXCEPT !.targetScroll = y] ELSE lenis
    /\ triggers' = Aged(triggers)
    /\ updateDue' = TRUE
    /\ UNCHANGED <<TIMINGS, repeated, hasRaf, thrown, pinRef, dead,
                   cleanedTwice, pageMounted, innerHeight, rafId, scheduled,
                   toRun, inFrame, passDone, st, style, lastArg, ticks,
                   tickAfterTeardown, orphanCall, passBeforeTick>>

\* The window is resized: ScrollTrigger refreshes every registration (start
\* is measured again, the distance given at creation stays) and the browser
\* keeps the scroll offset inside the document.
Resize(h) ==
    /\ pageMounted
    /\ ~inFrame
    /\ h # innerHeight
    /\ innerHeight' = h
    /\ LET y == ClampScroll(scrollY, triggers, h)
           trigs == Refreshed(triggers, h)
       IN  /\ scrollY' = y
           /\ triggers' = IF y = scrollY THEN trigs ELSE Aged(trigs)
           /\ lenis' = [lenis EXCEPT !.targetScroll = ClampScroll(@, triggers, h)]
    /\ updateDue' = TRUE
    /\ UNCHANGED <<TIMINGS, repeated, hasRaf, thrown, pinRef, dead,
                   cleanedTwice, pageMounted, rafId, scheduled, toRun,
                   inFrame, passDone, st, style, lastArg, ticks,
                   tickAfterTeardown, orphanCall, passBeforeTick>>

---------------------------------------------------------------------------
(* Frames *)

\* The host starts a frame: the callbacks requested so far will run in it.
BeginFrame ==
    /\ ~inFrame
    /\ scheduled # {} \/ (updateDue /\ triggers # {})
    /\ inFrame' = TRUE
    /\ passDone' = FALSE
    /\ toRun' = scheduled
    /\ scheduled' = {}
    /\ triggers' = Aged(triggers)
    /\ UNCHANGED <<TIMINGS, repeated, hasRaf, thrown, pinRef, dead,
                   cleanedTwice, pageMounted, innerHeight, scrollY, lenis,
                   rafId, st, updateDue, style, lastArg, ticks,
                   tickAfterTeardown, orphanCall, passBeforeTick>>

\* The frame callback raf: lenis.raf(time); rafId = requestAnimationFrame(raf).
RunRaf(h) ==
    /\ inFrame
    /\ h \in toRun
    /\ \E y \in (IF lenis.alive THEN LerpChoices(scrollY, lenis.targetScroll)
                 ELSE {scrollY}) :
          /\ scrollY' = y
          /\ updateDue' = (updateDue \/ y # scrollY)
    /\ LET n == Fresh(scheduled \cup (toRun \ {h}) \cup {RafStore(0)})
       IN  /\ scheduled' = scheduled \cup {n}
           /\ rafId' = RafStore(n)
    /\ toRun' = toRun \ {h}
    /\ ticks' = IMin(TickCap, ticks + 1)
    /\ tickAfterTeardown' = (tickAfterTeardown \/ ~pageMounted)
    /\ UNCHANGED <<TIMINGS, repeated, hasRaf, thrown, pinRef, dead,
                   cleanedTwice, pageMounted, innerHeight, lenis, inFrame,
                   passDone, triggers, st, style, lastArg, orphanCall,
                   passBeforeTick>>

\* ScrollTrigger's update pass over the live registrations: each reads the
\* window's scroll offset, and one whose progress changed stores it and calls
\* onUpdate(self), that is opts.onUpdate(self.progress): never with the
\* progress it handed over last.  A frame in which a
\* pass is outstanding runs one; the program does not order it and raf.
ScrollTriggerUpdate ==
    /\ inFrame
    /\ ~passDone
    /\ updateDue
    /\ triggers # {}
    /\ LET changed == Changed(triggers, scrollY)
           arg(s) == ProgressAt(CHOOSE t \in changed : t.el = s, scrollY)
       IN  /\ triggers' =
                 {IF t \in changed
                  THEN [t EXCEPT !.progress = ProgressAt(t, scrollY)]
                  ELSE t : t \in triggers}
           /\ style' = [s \in Sections |->
                           IF \E t \in changed : t.el = s
                           THEN OnUpdate(s, arg(s), style[s]) ELSE style[s]]
           /\ lastArg' = [s \in Sections |->
                             IF \E t \in changed : t.el = s
                             THEN arg(s) ELSE lastArg[s]]
           /\ orphanCall' = (orphanCall \/ \E t \in changed : st[t.el] # t.uid)
    /\ updateDue' = FALSE
    /\ passDone' = TRUE
    /\ passBeforeTick' = (passBeforeTick \/ toRun # {})
    /\ UNCHANGED <<TIMINGS, repeated, hasRaf, thrown, pinRef, dead,
                   cleanedTwice, pageMounted, innerHeight, scrollY, lenis,
                   rafId, scheduled, toRun, inFrame, st, ticks,
                   tickAfterTeardown>>

\* The frame ends once its callbacks have run and an outstanding update
\* pass has had its turn in it.
EndFrame ==
    /\ inFrame
    /\ toRun = {}
    /\ passDone \/ ~updateDue \/ triggers = {}
    /\ inFrame' = FALSE
    /\ passDone' = FALSE
    /\ UNCHANGED <<TIMINGS, repeated, hasRaf, thrown, pinRef, dead,
                   cleanedTwice, pageMounted, innerHeight, scrollY, lenis,
                   rafId, scheduled, toRun, triggers, st, updateDue, style,
                   lastArg, ticks, tickAfterTeardown, orphanCall,
                   passBeforeTick>>

---------------------------------------------------------------------------
(* The page in its host *)

\* Offsets unsmoothed scrolling jumps to: the top and the bottom of the page.
NativeTargets == {0, MaxScroll(triggers, innerHeight)}

Next ==
    \/ MountPage
    \/ RenderPage
    \/ UnmountPage
    \/ \E d \in WheelDeltas : Wheel(d)
    \/ \E y \in NativeTargets : NativeScroll(y)
    \/ BeginFrame
    \/ \E h \in toRun : RunRaf(h)
    \/ ScrollTriggerUpdate
    \/ EndFrame

Spec == Init /\ [][Next]_vars

\* usePinnedSection under a caller whose refs come and go: the sections
\* whose element is taken away and put back.
RefSections == {"hero", "story"}

HookNext ==
    \/ MountPage
    \/ RenderPage
    \/ UnmountPage
    \/ \E s \in RefSections, b \in BOOLEAN : SetRef(s, b)
    \/ \E y \in NativeTargets : NativeScroll(y)
    \/ BeginFrame
    \/ \E h \in toRun : RunRaf(h)
    \/ ScrollTriggerUpdate
    \/ EndFrame

HookSpec == Init /\ [][HookNext]_vars

\* usePinnedSection under a caller who keeps the cleanups it has run and
\* may invoke one again.
TeardownNext ==
    \/ MountPage
    \/ Render(TRUE)
    \/ Unmount(TRUE)
    \/ \E s \in Sections : CleanupAgain(s)
    \/ \E y \in NativeTargets : NativeScroll(y)
    \/ BeginFrame
    \/ \E h \in toRun : RunRaf(h)
    \/ ScrollTriggerUpdate
    \/ EndFrame

TeardownSpec == Init /\ [][TeardownNext]_vars

\* The page in any host, with or without requestAnimationFrame.
EnvInit == hasRaf \in BOOLEAN /\ Unmounted

EnvSpec == EnvInit /\ [][Next]_vars

---------------------------------------------------------------------------
(* The mounted page: the state MountPage leaves at the top of the page *)

ProgressInputs ==
    {Rat(i, ProgressGrid) : i \in (-ProgressOver)..(ProgressGrid + ProgressOver)}

MountedPage ==
    LET reg == EffectFrom([triggers |-> {}, st |-> [s \in Sections |-> 0],
                           dead |-> [s \in Sections |-> 0]],
                          1, 800, [s \in Sections |-> TRUE])
    IN  /\ hasRaf = TRUE
        /\ thrown = FALSE
        /\ pinRef = [s \in Sections |-> TRUE]
        /\ dead = reg.dead
        /\ cleanedTwice = FALSE
        /\ repeated = FALSE
        /\ pageMounted = TRUE
        /\ innerHeight = 800
        /\ scrollY = 0
        /\ lenis = [alive |-> TRUE, targetScroll |-> 0]
        /\ rafId = 1
        /\ scheduled = {1}
        /\ toRun = {}
        /\ inFrame = FALSE
        /\ passDone = FALSE
        /\ triggers = reg.triggers
        /\ st = reg.st
        /\ updateDue = TRUE
        /\ style = [s \in Sections |-> InitialStyle(s)]
        /\ lastArg = [s \in Sections |-> None]
        /\ ticks = 0
        /\ tickAfterTeardown = FALSE
        /\ orphanCall = FALSE
        /\ passBeforeTick = FALSE

MountedInit == TIMINGS = DefaultTimings /\ MountedPage

\* The section callbacks invoked directly, one section per behaviour:
\* opts.onUpdate(p) of section s
DirectCall(s, p) ==
    /\ pageMounted
    /\ \A r \in Sections \ {s} : lastArg[r] = None
    /\ style' = [style EXCEPT ![s] = OnUpdate(s, p, style[s])]
    /\ lastArg' = [lastArg EXCEPT ![s] = p]
    /\ repeated' = (repeated \/ lastArg[s] = p)
    /\ UNCHANGED hostVars

\* The mounted page scrolled without smoothing and resized.  The offsets
\* tried: steps of ScrubGrid from each registration's start to past its end,
\* its end, and the bottom of the page.
ScrubTargets ==
    {y \in UNION {{t.start + k * ScrubGrid : k \in 0..(t.distance \div ScrubGrid + 1)}
                     \cup {t.start + t.distance} : t \in triggers}
        : y <= MaxScroll(triggers, innerHeight)}
    \cup {MaxScroll(triggers, innerHeight)}

ScrollNext ==
    \/ \E y \in ScrubTargets : NativeScroll(y)
    \/ \E h \in InnerHeights : Resize(h)
    \/ BeginFrame
    \/ \E h \in toRun : RunRaf(h)
    \/ ScrollTriggerUpdate
    \/ EndFrame

ScrollSpec == MountedInit /\ [][ScrollNext]_vars

MapperNext == \E s \in Sections, p \in ProgressInputs : DirectCall(s, p)

MapperSpec == MountedInit /\ [][MapperNext]_vars

\* The module loaded with any PinTimings value in place of the literal: the
\* type PinTimings is three numbers.  (The values tried keep fadeInEnd away
\* from 0, so that every division phaseOpacity makes is by a nonzero number.)
TimingsChoices ==
    [fadeInEnd : {<<1, 5>>, <<7, 10>>, <<9, 10>>},
     holdEnd : {<<1, 5>>, <<7, 10>>, <<9, 10>>},
     fadeOutEnd : {<<1, 5>>, <<7, 10>>, <<9, 10>>}]

ConfigInit == TIMINGS \in TimingsChoices /\ MountedPage

ConfigSpec == ConfigInit /\ [][MapperNext]_vars


---------------------------------------------------------------------------
(* Properties of the Progress Mapper and the Section Bindings (MapperSpec) *)

InUnit(o) == RLe(Zero, o) /\ RLe(o, One)
Called(s) == lastArg[s] # None
Between(lo, p, hi) == RLe(lo, p) /\ RLe(p, hi)
SingleSections == Sections \ MultiSections
\* The opacity written on the one target of a single-target section
Shown(s) == style[s][1].opacity

\* C1: whatever progress a callback was handed, inside or outside [0, 1],
\* every opacity it wrote lies in [0, 1]; a single-target section's opacity
\* is what phaseOpacity returned.
C1_OpacityInUnitRange ==
    \A s \in Sections :
        Called(s) => \A i \in DOMAIN style[s] : InUnit(style[s][i].opacity)

\* C1 witness: the callback ran with a progress below 0 and wrote opacity 0.
C1_Witness ==
    /\ Called("hero")
    /\ RLt(lastArg["hero"], Zero)
    /\ Shown("hero") = Zero

\* C2: with the default thresholds the opacity at progress 0, fadeInEnd,
\* holdEnd, fadeOutEnd and 1 is 0, 1, 1, 0 and 0.
C2_BoundaryValues ==
    \A s \in SingleSections :
        /\ lastArg[s] = Zero => Shown(s) = Zero
        /\ lastArg[s] = <<1, 5>> => Shown(s) = One
        /\ lastArg[s] = <<7, 10>> => Shown(s) = One
        /\ lastArg[s] = <<9, 10>> => Shown(s) = Zero
        /\ lastArg[s] = One => Shown(s) = Zero

\* C2 witness: the callback ran at progress holdEnd and wrote opacity 1.
C2_Witness ==
    /\ lastArg["diamond"] = <<7, 10>>
    /\ Shown("diamond") = One

\* C3: for two successive invocations with progress p <= q in the same
\* piece, the opacity does not fall on [0, fadeInEnd], is 1 on
\* [fadeInEnd, holdEnd], does not rise on [holdEnd, fadeOutEnd] and is 0 on
\* [fadeOutEnd, 1].
C3_MonotoneStep ==
    \A s \in SingleSections :
        (Called(s) /\ lastArg'[s] # None /\ RLe(lastArg[s], lastArg'[s])) =>
            LET p == lastArg[s]
                q == lastArg'[s]
                o == style[s][1].opacity
                o2 == style'[s][1].opacity
            IN  /\ (RLe(Zero, p) /\ RLe(q, <<1, 5>>)) => RLe(o, o2)
                /\ (RLe(<<1, 5>>, p) /\ RLe(q, <<7, 10>>)) => (o = One /\ o2 = One)
                /\ (RLe(<<7, 10>>, p) /\ RLe(q, <<9, 10>>)) => RLe(o2, o)
                /\ (RLe(<<9, 10>>, p) /\ RLe(q, One)) => (o = Zero /\ o2 = Zero)

C3_Monotone == [][C3_MonotoneStep]_vars

\* C3 witness: the callback ran inside the fade-out piece and wrote an
\* opacity strictly between 0 and 1.
C3_Witness ==
    /\ Called("hero")
    /\ RLt(<<7, 10>>, lastArg["hero"])
    /\ RLt(lastArg["hero"], <<9, 10>>)
    /\ RLt(Zero, Shown("hero"))
    /\ RLt(Shown("hero"), One)

\* k is min(N - 1, floor(clamp01((p - 0.2) / 0.5) * N)), stated on the
\* integers a, b of p = a / b: (p - 0.2) / 0.5 * N = N (10 a - 2 b) / (5 b).
IsActiveIndex(k, p, N) ==
    LET x == N * (10 * p[1] - 2 * p[2])
        d == 5 * p[2]
    IN  /\ k \in 0..(N - 1)
        /\ IF x <= 0 THEN k = 0
           ELSE IF x >= N * d THEN k = N - 1
           ELSE d * k <= x /\ x < d * (k + 1)

\* The items a text section's callback left active (at offset 0)
ActiveItems(s) == {i \in DOMAIN style[s] : style[s][i].translateY = Zero}
\* The items left with a nonzero opacity
VisibleItems(s) == {i \in DOMAIN style[s] : style[s][i].opacity # Zero}

\* C4: after a multi-item callback ran with progress p over N items, the
\* item it made active is number min(N - 1, floor(clamp01((p - 0.2) / 0.5) * N)),
\* which is in [0, N - 1]; for N = 3 that is 0 at p = 0.2, 1 at p = 0.45 and
\* 2 at p = 0.7.
C4_ActiveIndex ==
    /\ \A s \in {"story", "craft"} :
          Called(s) =>
             /\ Cardinality(ActiveItems(s)) = 1
             /\ \A i \in ActiveItems(s) :
                   /\ IsActiveIndex(i - 1, lastArg[s], Len(style[s]))
                   /\ lastArg[s] = <<1, 5>> => i - 1 = 0
                   /\ lastArg[s] = <<9, 20>> => i - 1 = 1
                   /\ lastArg[s] = <<7, 10>> => i - 1 = 2
    /\ Called("ai-visuals") =>
          \A i \in VisibleItems("ai-visuals") :
              /\ IsActiveIndex(i - 1, lastArg["ai-visuals"], Len(style["ai-visuals"]))
              /\ lastArg["ai-visuals"] = <<1, 5>> => i - 1 = 0
              /\ lastArg["ai-visuals"] = <<9, 20>> => i - 1 = 1
              /\ lastArg["ai-visuals"] = <<7, 10>> => i - 1 = 2

\* C4 witness: the story callback ran at p = 0.45 and made line 1 active.
C4_Witness ==
    /\ lastArg["story"] = <<9, 20>>
    /\ ActiveItems("story") = {2}

\* C5: after a multi-item callback ran with progress p, the active item has
\* opacity phaseOpacity(p) and every other item opacity 0: at most one item
\* is visible, and exactly one for p in [0.2, 0.7].
C5_OneVisibleItem ==
    \A s \in MultiSections :
        Called(s) =>
            LET p == lastArg[s] IN
            /\ \A i \in DOMAIN style[s] :
                  style[s][i].opacity =
                     IF IsActiveIndex(i - 1, p, Len(style[s]))
                     THEN phaseOpacity(p) ELSE Zero
            /\ Cardinality(VisibleItems(s)) <= 1
            /\ Between(<<1, 5>>, p, <<7, 10>>) => Cardinality(VisibleItems(s)) = 1

\* C5 witness: the craft callback ran in the hold phase; the middle card
\* alone is visible, at full opacity.
C5_Witness ==
    /\ lastArg["craft"] = <<1, 2>>
    /\ VisibleItems("craft") = {2}
    /\ style["craft"][2].opacity = One


\* C15: a callback invoked again with the progress of the invocation before
\* it leaves every target's opacity and offset as they were, and the state a
\* callback leaves is the one it would leave on the targets as first
\* rendered: it depends on the progress alone.
C15_IdempotentStep ==
    \A s \in Sections :
        lastArg'[s] # None =>
            /\ lastArg'[s] = lastArg[s] => style'[s] = style[s]
            /\ style'[s] = OnUpdate(s, lastArg'[s], InitialStyle(s))

C15_Idempotent == [][C15_IdempotentStep]_vars

\* C15 witness: the story callback was invoked twice in a row at p = 0.5;
\* its middle line is shown at opacity 1 and offset 0, the others hidden.
C15_Witness ==
    /\ repeated
    /\ lastArg["story"] = <<1, 2>>
    /\ style["story"][2] = [opacity |-> One, translateY |-> Zero]
    /\ style["story"][1] = [opacity |-> Zero, translateY |-> Ten]
    /\ style["story"][3] = [opacity |-> Zero, translateY |-> Ten]

\* C16: for every progress n a callback was handed, clamp01(n) is 0 when
\* n < 0, 1 when n > 1 and n itself when 0 <= n <= 1; the single-target
\* sections accordingly show an input outside [0, 1] as they show 0 or 1
\* (opacity 0, offset 10).
C16_Clamp01 ==
    \A s \in Sections :
        Called(s) =>
            LET n == lastArg[s] IN
            /\ RLt(n, Zero) => clamp01(n) = Zero
            /\ RLt(One, n) => clamp01(n) = One
            /\ Between(Zero, n, One) => clamp01(n) = n
            /\ (s \in SingleSections /\ ~Between(Zero, n, One)) =>
                  style[s][1] = [opacity |-> Zero, translateY |-> Ten]

\* C16 witness: the diamond callback was handed a progress above 1, which
\* clamp01 maps to 1, and shows opacity 0.
C16_Witness ==
    /\ Called("diamond")
    /\ RLt(One, lastArg["diamond"])
    /\ clamp01(lastArg["diamond"]) = One
    /\ Shown("diamond") = Zero

\* C18: in every pinned section, the offset a callback leaves on a target
\* is (1 - opacity) * 10 for the opacity it leaves on it.
C18_OffsetFromOpacity ==
    \A s \in Sections :
        Called(s) =>
            \A i \in DOMAIN style[s] :
                style[s][i].translateY = RMul(RSub(One, style[s][i].opacity), Ten)

\* C18 as amended: in the single-target sections the offset is
\* (1 - opacity) * 10, which is 0 only at opacity 1; in the text sections
\* the active item is at offset 0 whatever its opacity and every other item
\* at offset 10 with opacity 0; the image section's targets stay at offset 0.
C18_OffsetBySection ==
    \A s \in Sections :
        Called(s) =>
            \A i \in DOMAIN style[s] :
                LET o == style[s][i].opacity
                    y == style[s][i].translateY
                IN  /\ s \in SingleSections =>
                          /\ y = RMul(RSub(One, o), Ten)
                          /\ (y = Zero) <=> (o = One)
                    /\ s \in {"story", "craft"} =>
                          IF IsActiveIndex(i - 1, lastArg[s], Len(style[s]))
                          THEN y = Zero
                          ELSE y = Ten /\ o = Zero
                    /\ s = "ai-visuals" => y = Zero

\* C18 witness: the story callback ran in the fade-in at p = 0.1 and left
\* its first line at opacity 1/2 and offset 0, the other lines hidden at
\* offset 10.
C18_Witness ==
    /\ lastArg["story"] = <<1, 10>>
    /\ style["story"][1] = [opacity |-> <<1, 2>>, translateY |-> Zero]
    /\ style["story"][2] = [opacity |-> Zero, translateY |-> Ten]
    /\ style["story"][3] = [opacity |-> Zero, translateY |-> Ten]

---------------------------------------------------------------------------
(* Configuration (ConfigSpec) *)

\* 0 < fadeInEnd < holdEnd < fadeOutEnd <= 1
ValidTimings(T) ==
    /\ RLt(Zero, T.fadeInEnd)
    /\ RLt(T.fadeInEnd, T.holdEnd)
    /\ RLt(T.holdEnd, T.fadeOutEnd)
    /\ RLe(T.fadeOutEnd, One)

---------------------------------------------------------------------------
(* Unsupported host (EnvSpec) *)

\* C12: in a host without a frame-callback primitive, starting the
\* virtualizer and registering the pin controllers throw nothing and leave
\* the page rendered (static): no effect of the page has thrown, and the
\* page has not been taken down by an error.
C12_NeverThrows == ~thrown

---------------------------------------------------------------------------
(* Lifecycle properties (Spec) *)

LiveFor(s) == {t \in triggers : t.id = s}

\* C6: a registration that has seen no frame and no scroll change has made
\* no callback; a registration that was torn down never makes one later; and
\* teardown leaves no live registration behind: every live registration is
\* the st of a current effect, and none and no frame callback is left once
\* the page is unmounted.
C6_QuickTeardown ==
    /\ \A t \in triggers : t.fresh => lastArg[t.el] = None
    /\ ~orphanCall
    /\ \A t \in triggers : st[t.el] = t.uid
    /\ ~pageMounted => (triggers = {} /\ scheduled = {})

\* C6 witness: the page was mounted and unmounted again with no frame in
\* between (no raf tick since the mount).
C6_Witness ==
    /\ ~pageMounted
    /\ rafId # 0
    /\ ticks = 0
    /\ triggers = {}
    /\ scheduled = {}
    /\ \A s \in Sections : lastArg[s] = None

\* C7: once the page is unmounted no frame callback is scheduled or waiting
\* to run, the smoother is destroyed, no registration is live, and no raf
\* tick has run on the unmounted page.
C7_NothingSurvivesUnmount ==
    ~pageMounted =>
        /\ scheduled = {}
        /\ toRun = {}
        /\ ~lenis.alive
        /\ triggers = {}
        /\ ~tickAfterTeardown

\* C7 witness: the page was unmounted after raf ticks had run.
C7_Witness ==
    /\ ~pageMounted
    /\ ticks >= 1
    /\ scheduled = {}
    /\ ~lenis.alive

\* C8: while the page is mounted every section has exactly one live
\* registration, after unmount none, and no two live registrations share
\* an id.
C8_OneRegistrationPerSection ==
    /\ pageMounted => \A s \in Sections : Cardinality(LiveFor(s)) = 1
    /\ ~pageMounted => triggers = {}
    /\ \A t1, t2 \in triggers : t1.id = t2.id => t1 = t2

\* C8 witness: a section was registered again by a re-render after its
\* callback had run (its targets carry a written style, its current
\* registration has made no callback), and has one live registration.
C8_Witness ==
    /\ pageMounted
    /\ style["hero"] # InitialStyle("hero")
    /\ lastArg["hero"] = None
    /\ Cardinality(LiveFor("hero")) = 1

\* C10: every update pass of a frame runs after the frame's raf tick: no
\* pass has read the scroll offset while the tick of its frame was still to
\* run.
C10_TickBeforeRead == ~passBeforeTick

C20_BeforeStep ==
    \A t \in triggers :
        (scrollY <= t.start /\ lastArg[t.el] = None) => lastArg'[t.el] = None

C20_BeforeNeverCalled == [][C20_BeforeStep]_vars

\* C20 witness: frames and an update pass have run and hero has been
\* called, while craft, whose start the offset has not reached, has held
\* its registration over a frame and has not been called.
C20_Witness ==
    /\ ticks >= 1
    /\ ~updateDue
    /\ Called("hero")
    /\ lastArg["craft"] = None
    /\ \E t \in LiveFor("craft") : scrollY <= t.start /\ ~t.fresh

---------------------------------------------------------------------------
(* usePinnedSection under any caller (HookSpec) *)

\* C13: when a section's pinRef is unset as its effect runs, the pass makes
\* no registration for it, no callback of it follows and nothing is thrown;
\* tearing the pass down (on the next render or on unmount) throws nothing
\* and leaves the other sections registered; and every render attempts the
\* registration again, so that a section whose ref is set by then is
\* registered, once.
C13_MissingTargetStep ==
    /\ ~thrown'
    /\ \A s \in Sections :
          /\ (pageMounted' /\ st'[s] = 0) =>
                ({t \in triggers' : t.id = s} = {} /\ lastArg'[s] = None)
          /\ RenderPage =>
                /\ ~pinRef[s] =>
                      (st'[s] = 0 /\ {t \in triggers' : t.id = s} = {})
                /\ pinRef[s] =>
                      (st'[s] # 0 /\ Cardinality({t \in triggers' : t.id = s}) = 1)

C13_MissingTarget == [][C13_MissingTargetStep]_vars

\* C13 witness: the page rendered while the story section's ref was unset:
\* story has no registration and has made no callback, while craft is
\* registered and has been called, frames having run.
C13_Witness ==
    /\ pageMounted
    /\ ~pinRef["story"]
    /\ st["story"] = 0
    /\ LiveFor("story") = {}
    /\ lastArg["story"] = None
    /\ Cardinality(LiveFor("craft")) = 1
    /\ lastArg["craft"] # None
    /\ ticks >= 1

\* C14: a cleanup invoked a second time, for a registration it has already
\* torn down, changes nothing: the registry and every effect's st are as
\* they were, nothing is thrown, and a newer registration of the same id
\* stays live.
C14_SecondTeardownStep ==
    (\E s \in Sections : CleanupAgain(s)) =>
        /\ triggers' = triggers
        /\ st' = st
        /\ scheduled' = scheduled
        /\ ~thrown'
        /\ \A s \in Sections :
              st[s] # 0 => \E t \in triggers' : t.uid = st[s] /\ t.id = s

C14_SecondTeardown == [][C14_SecondTeardownStep]_vars

\* C14 witness: a cleanup was invoked again while the page was mounted:
\* the hero registration it had killed stays gone and the newer hero
\* registration is live.
C14_Witness ==
    /\ cleanedTwice
    /\ pageMounted
    /\ dead["hero"] # 0
    /\ st["hero"] # dead["hero"]
    /\ {t.uid : t \in LiveFor("hero")} = {st["hero"]}

\* C17: between a mount and the matching unmount a section's registration
\* is created once and torn down once, however often the section renders:
\* while the page stays mounted every effect's st stays the instance created
\* at mount and no cleanup runs.
C17_RegisteredOnceStep ==
    (pageMounted /\ pageMounted') => (st' = st /\ dead' = dead)

C17_RegisteredOnce == [][C17_RegisteredOnceStep]_vars

---------------------------------------------------------------------------
(* Progress of a pinned section (ScrollSpec) *)

\* clamp01((y - start) / D) for the pin distance D = pinDurationVh *
\* viewportHeight / 100 of registration time, stated without division:
\* e is 0 up to start, 1 from start + D on, and e * D = y - start between.
IsProgress(e, y, t) ==
    LET D == (PinDurationVh(t.el) * t.regHeight) \div 100
    IN  IF y <= t.start THEN e = Zero
        ELSE IF y >= t.start + D THEN e = One
        ELSE e[1] * D = e[2] * (y - t.start)

\* C9: in every update pass a registration whose progress changes hands its
\* callback clamp01((virtualPos - start) / pinDistance), with pinDistance
\* the pinDurationVh * viewportHeight / 100 of registration time, and one
\* whose progress does not change makes no callback; with pinDurationVh 200
\* and height 800 the distance is 1600, and at start + 320 the story section
\* is handed 0.2, shows opacity 1 and has line 0 active.
C9_PassStep ==
    (~passDone /\ passDone') =>
        \A t \in triggers :
            LET s == t.el
                e == ProgressAt(t, scrollY)
            IN  /\ IsProgress(e, scrollY, t)
                /\ e # t.progress => lastArg'[s] = e
                /\ e = t.progress => (lastArg'[s] = lastArg[s] /\ style'[s] = style[s])
                /\ (s = "story" /\ t.regHeight = 800 /\ scrollY = t.start + 320
                        /\ e # t.progress) =>
                      /\ t.distance = 1600
                      /\ lastArg'[s] = <<1, 5>>
                      /\ style'[s][1] = [opacity |-> One, translateY |-> Zero]
                      /\ style'[s][2].opacity = Zero
                      /\ style'[s][3].opacity = Zero

C9_Progress == [][C9_PassStep]_vars

\* C9 witness: the story section, registered at height 800, was handed 0.2
\* at start + 320 and shows its first line at opacity 1.
C9_Witness ==
    \E t \in triggers :
        /\ t.el = "story"
        /\ t.regHeight = 800
        /\ scrollY = t.start + 320
        /\ t.progress = <<1, 5>>
        /\ lastArg["story"] = <<1, 5>>
        /\ style["story"][1].opacity = One

=============================================================================
